---------------------------- MODULE Spec2Model ----------------------------
(***************************************************************************)
(* A model of the CPLEX adapter (src/src/solvers/cplex.rs), the expression *)
(* operators and constraint builders (src/src/operations.rs) and the       *)
(* line-dialect solution readers exercised by src/tests/solvers.rs.        *)
(*                                                                         *)
(* The module holds independent state machines, one per component, each    *)
(* with its own specification (SpecCplex, SpecStdout, SpecXml, SpecExpr,   *)
(* SpecLine); each leaves the variables of the other components idle.      *)
(***************************************************************************)
EXTENDS Integers, Sequences, FiniteSets, TLC

VARIABLES
    \* ---- Cplex configuration / invocation (cplex.rs 18-96)
    solver,      \* the current Cplex value: [command, mipgap]
    accepted,    \* history: the gap of the last Ok with_mip_gap since construction
    cfgCall,     \* the last with_mip_gap call: its argument and its Result
    argsCall,    \* the last arguments() call: its paths and the vector returned
    stdoutCall,  \* the last parse_stdout_status call: its bytes and its Option<Status>
    \* ---- Cplex::read_specific_solution (cplex.rs 98-141)
    xpc,         \* "idle" | "scanning" | "returned"
    xhint,       \* the problem hint: Option<variable count>
    xdoc,        \* the XML events the parser has yielded so far
    xrun,        \* the call's locals and result: [solution, ret, errs]
    xref,        \* the same call on the same events with problem = None
    \* ---- expression operators and constraints (operations.rs)
    expr,        \* the expression built so far (a local of the caller)
    mulCall,     \* the last multiplication attempted: operand types and outcome
    conCall,     \* the last le / ge / equal call: operands and the constraint returned
    \* ---- line-dialect readers (tests/solvers.rs)
    lpc,         \* "idle" | "reading" | "returned"
    ldoc,        \* the lines read so far
    lrun         \* [status, results, ret]

cplexVars == <<solver, accepted, cfgCall, argsCall, stdoutCall>>
xmlVars   == <<xpc, xhint, xdoc, xrun, xref>>
exprVars  == <<expr, mulCall, conCall>>
lineVars  == <<lpc, ldoc, lrun>>
vars      == <<cplexVars, xmlVars, exprVars, lineVars>>

\* Option<T>
None    == [some |-> FALSE]
Some(v) == [some |-> TRUE, val |-> v]

\* Result<T, E>
Ok(v)  == [ok |-> TRUE, val |-> v]
Err(e) == [ok |-> FALSE, err |-> e]

(***************************************************************************)
(* f32.  A value is a sign bit, a class and, when finite, a magnitude in   *)
(* halves (mag = 3 is 1.5).  Both zeros and both NaN signs are values.     *)
(***************************************************************************)
MaxMag == 3

Finite(sign, mag) == [sign |-> sign, kind |-> "finite", mag |-> mag]
Infinity(sign)    == [sign |-> sign, kind |-> "inf", mag |-> 0]
NaN(sign)         == [sign |-> sign, kind |-> "nan", mag |-> 0]

F32 == {Finite(s, m) : s \in {0, 1}, m \in 0..MaxMag}
         \cup {Infinity(s) : s \in {0, 1}} \cup {NaN(s) : s \in {0, 1}}

is_sign_positive(x) == x.sign = 0
is_finite(x)        == x.kind = "finite"

\* x < 0.0 and x >= 0.0 as IEEE-754 compares them: -0.0 is not negative
IsNegative(x)    == x.kind /= "nan" /\ x.sign = 1 /\ ~(x.kind = "finite" /\ x.mag = 0)
IsNonNegative(x) == x.kind /= "nan" /\ ~IsNegative(x)

Digit == <<"0", "1", "2", "3", "4", "5", "6", "7", "8", "9">>

RECURSIVE IntToString(_)
IntToString(n) ==
    IF n < 10 THEN Digit[n + 1] ELSE IntToString(n \div 10) \o Digit[(n % 10) + 1]

\* f32's Display: the shortest decimal that round-trips, no trailing ".0"
F32ToString(x) ==
    LET sgn == IF x.sign = 1 THEN "-" ELSE ""
    IN  CASE x.kind = "nan" -> "NaN"
          [] x.kind = "inf" -> sgn \o "inf"
          [] OTHER ->
               sgn \o IntToString(x.mag \div 2) \o (IF x.mag % 2 = 1 THEN ".5" ELSE "")

(***************************************************************************)
(* Cplex: construction and configuration                                   *)
(***************************************************************************)
Commands == {"cplex", "/opt/ibm/cplex"}
LpFiles  == {"test.lp", "my dir/p.lp"}
SolFiles == {"test.sol", "out.sol"}

Cplex(command, mipgap) == [command |-> command, mipgap |-> mipgap]

CplexDefault == Cplex("cplex", None)

with_command(command) == Cplex(command, None)

mip_gap(self) == self.mipgap

MipGapError == "Invalid MIP gap: must be positive and finite"

with_mip_gap(self, mipgap) ==
    IF is_sign_positive(mipgap) /\ is_finite(mipgap)
    THEN Ok(Cplex(self.command, Some(mipgap)))
    ELSE Err(MipGapError)

command_name(self) == self.command

arguments_gap_after_optimize(self, lp_file, solution_file) ==
    LET head == <<"-c", "READ \"" \o lp_file \o "\"", "optimize">>
        gap  == IF mip_gap(self).some
                THEN <<"set mip tolerances mipgap " \o F32ToString(mip_gap(self).val)>>
                ELSE <<>>
    IN  head \o gap \o <<"WRITE \"" \o solution_file \o "\"">>

arguments(self, lp_file, solution_file) ==
    LET args0 == <<"-c", "READ \"" \o lp_file \o "\"">>
        args1 == IF mip_gap(self).some
                 THEN Append(args0,
                        "set mip tolerances mipgap " \o F32ToString(mip_gap(self).val))
                 ELSE args0
        args2 == Append(args1, "optimize")
    IN  Append(args2, "WRITE \"" \o solution_file \o "\"")

solution_suffix(self) == Some(".sol")

(***************************************************************************)
(* Cplex::parse_stdout_status.  Captured stdout is a byte sequence, here a *)
(* sequence of one-character strings assembled from a few fragments.       *)
(***************************************************************************)
MaxChunks == 3

Banner == <<"N", "o", " ", "s", "o", "l", "u", "t", "i", "o", "n", " ",
            "e", "x", "i", "s", "t", "s">>

StdoutChunks ==
    { Banner,
      SubSeq(Banner, 1, 11),        \* "No solution"
      SubSeq(Banner, 12, 18),       \* " exists"
      <<"C", "P", "L", "E", "X", ">", " ">>,
      <<".", "\n">>,
      <<"n", "o", " ", "s", "o", "l", "u", "t", "i", "o", "n", " ",
        "e", "x", "i", "s", "t", "s">> }

\* util::buf_contains(haystack, needle): some window of the bytes equals the needle
RECURSIVE WindowsMatch(_, _, _)
WindowsMatch(haystack, needle, i) ==
    IF i + Len(needle) - 1 > Len(haystack) THEN FALSE
    ELSE IF SubSeq(haystack, i, i + Len(needle) - 1) = needle THEN TRUE
    ELSE WindowsMatch(haystack, needle, i + 1)

buf_contains(haystack, needle) == WindowsMatch(haystack, needle, 1)

parse_stdout_status_inverted(self, stdout) ==
    IF buf_contains(stdout, Banner) THEN None ELSE Some("Infeasible")

parse_stdout_status(self, stdout) ==
    IF buf_contains(stdout, Banner) THEN Some("Infeasible") ELSE None


(***************************************************************************)
(* Idle values of the four components                                      *)
(***************************************************************************)
CplexIdle ==
    /\ solver = CplexDefault
    /\ accepted = None
    /\ cfgCall = None
    /\ argsCall = None
    /\ stdoutCall = None

XmlIdle ==
    /\ xpc = "idle"
    /\ xhint = None
    /\ xdoc = <<>>
    /\ xrun = None
    /\ xref = None

ExprIdle ==
    /\ expr = None
    /\ mulCall = None
    /\ conCall = None

LineIdle ==
    /\ lpc = "idle"
    /\ ldoc = <<>>
    /\ lrun = None

(***************************************************************************)
(* SpecCplex: a caller constructs a solver, configures it and asks for the *)
(* argument vector.                                                        *)
(***************************************************************************)
NewDefault ==
    /\ solver' = CplexDefault
    /\ accepted' = None
    /\ UNCHANGED <<cfgCall, argsCall, stdoutCall>>
    /\ UNCHANGED <<xmlVars, exprVars, lineVars>>

WithCommand ==
    \E c \in Commands :
        /\ solver' = with_command(c)
        /\ accepted' = None
        /\ UNCHANGED <<cfgCall, argsCall, stdoutCall>>
        /\ UNCHANGED <<xmlVars, exprVars, lineVars>>

\* let solver = solver.with_mip_gap(g)?  -- on Err the caller keeps the old value
WithMipGap ==
    \E g \in F32 :
        LET r == with_mip_gap(solver, g)
        IN  /\ cfgCall' = Some([arg |-> g, res |-> r])
            /\ solver' = IF r.ok THEN r.val ELSE solver
            /\ accepted' = IF r.ok THEN Some(g) ELSE accepted
            /\ UNCHANGED <<argsCall, stdoutCall>>
            /\ UNCHANGED <<xmlVars, exprVars, lineVars>>

Arguments ==
    \E lp \in LpFiles, sol \in SolFiles :
        /\ argsCall' = Some([lp_file |-> lp, solution_file |-> sol, gap |-> accepted,
                             args |-> arguments(solver, lp, sol)])
        /\ UNCHANGED <<solver, accepted, cfgCall, stdoutCall>>
        /\ UNCHANGED <<xmlVars, exprVars, lineVars>>

CplexInit == CplexIdle /\ XmlIdle /\ ExprIdle /\ LineIdle

CplexNext == NewDefault \/ WithCommand \/ WithMipGap \/ Arguments

SpecCplex == CplexInit /\ [][CplexNext]_vars

(***************************************************************************)
(* SpecStdout: the adapter is handed the captured stdout of one run.       *)
(***************************************************************************)
RECURSIVE Concat(_)
Concat(chunks) ==
    IF chunks = <<>> THEN <<>> ELSE Head(chunks) \o Concat(Tail(chunks))

ChunkSeqs == UNION {[1..n -> StdoutChunks] : n \in 0..MaxChunks}

ParseStdoutStatus ==
    \E chunks \in ChunkSeqs :
        LET stdout == Concat(chunks)
        IN  /\ stdoutCall' = Some([stdout |-> stdout,
                                   status |-> parse_stdout_status(solver, stdout)])
            /\ UNCHANGED <<solver, accepted, cfgCall, argsCall>>
            /\ UNCHANGED <<xmlVars, exprVars, lineVars>>

StdoutNext == ParseStdoutStatus

SpecStdout == CplexInit /\ [][StdoutNext]_vars

(***************************************************************************)
(* Claims about the Cplex adapter                                          *)
(***************************************************************************)

\* C1: with_mip_gap(g) returns Err for every negative and every non-finite g, and
\* Ok with mip_gap() = Some(g) for every non-negative finite g, the zero of either
\* sign included.
C1_MipGapDecision ==
    cfgCall.some =>
        LET g == cfgCall.val.arg
            r == cfgCall.val.res
        IN  /\ (IsNegative(g) \/ ~is_finite(g)) => ~r.ok
            /\ (IsNonNegative(g) /\ is_finite(g)) => (r.ok /\ mip_gap(r.val) = Some(g))

\* The vector the claim C4 describes, written out element by element.
C4_Expected(lp, sol, gap) ==
    IF gap.some
    THEN << "-c",
            "READ \"" \o lp \o "\"",
            "set mip tolerances mipgap " \o F32ToString(gap.val),
            "optimize",
            "WRITE \"" \o sol \o "\"" >>
    ELSE << "-c", "READ \"" \o lp \o "\"", "optimize", "WRITE \"" \o sol \o "\"" >>

\* C4: arguments(lp_file, solution_file) is exactly ["-c", READ "<lp_file>", optimize,
\* WRITE "<solution_file>"], with the one element "set mip tolerances mipgap <g>"
\* between READ and optimize if and only if with_mip_gap accepted a gap g for this
\* solver.
C4_ArgumentVector ==
    argsCall.some =>
        LET c == argsCall.val
        IN  /\ c.args = C4_Expected(c.lp_file, c.solution_file, c.gap)
            /\ Len(c.args) = (IF c.gap.some THEN 5 ELSE 4)
            /\ c.args[Len(c.args) - 1] = "optimize"

C4_Witness ==
    /\ argsCall.some
    /\ argsCall.val.gap = Some(Finite(0, 1))
    /\ argsCall.val.args = << "-c", "READ \"test.lp\"", "set mip tolerances mipgap 0.5",
                              "optimize", "WRITE \"test.sol\"" >>

\* Some window of the bytes spells the banner.
C7_HasBanner(stdout) ==
    \E i \in 1..Len(stdout) :
        /\ i + Len(Banner) - 1 <= Len(stdout)
        /\ \A k \in 1..Len(Banner) : stdout[i + k - 1] = Banner[k]

\* C7: parse_stdout_status never reports an error: it returns Some(Infeasible) when
\* "No solution exists" occurs anywhere in the captured bytes, and None otherwise.
C7_StdoutStatus ==
    stdoutCall.some =>
        LET c == stdoutCall.val
        IN  /\ c.status \in {None, Some("Infeasible")}
            /\ C7_HasBanner(c.stdout) <=> (c.status = Some("Infeasible"))

\* the banner arrives split over two reads, after a prompt
C7_Witness ==
    /\ stdoutCall.some
    /\ stdoutCall.val.stdout =
          <<"C", "P", "L", "E", "X", ">", " ">> \o Banner
    /\ stdoutCall.val.status = Some("Infeasible")

(***************************************************************************)
(* Cplex::read_specific_solution.  The EventReader is a stream of events;  *)
(* the for loop of the function takes them one by one.                     *)
(***************************************************************************)
MaxEvents == 2

VarNames     == {"x", "y"}
ValueStrings == {"1", "0.5", "abc"}

\* str::parse::<f32>() on the strings above
ParseF32(s) ==
    CASE s = "1"   -> Ok(Finite(0, 2))
      [] s = "0.5" -> Ok(Finite(0, 1))
      [] s = "0"   -> Ok(Finite(0, 0))
      [] s = ""    -> Err("cannot parse float from empty string")
      [] OTHER     -> Err("invalid float literal")

Attr(name, value) == [name |-> name, value |-> value]

StartElement(name, attributes) ==
    [type |-> "StartElement", name |-> name, attributes |-> attributes, msg |-> ""]
OtherEvent(type) == [type |-> type, name |-> "", attributes |-> <<>>, msg |-> ""]
XmlError(msg)    == [type |-> "Error", name |-> "", attributes |-> <<>>, msg |-> msg]

\* name and value in either order, each optional, behind an optional unrelated attribute
CoreAttrLists ==
    {<<>>}
      \cup {<<Attr("name", n)>> : n \in VarNames}
      \cup {<<Attr("value", v)>> : v \in ValueStrings}
      \cup {<<Attr("name", n), Attr("value", v)>> : n \in VarNames, v \in ValueStrings}
      \cup {<<Attr("value", v), Attr("name", n)>> : n \in VarNames, v \in ValueStrings}

AttrLists == CoreAttrLists \cup {<<Attr("index", "0")>> \o a : a \in CoreAttrLists}

StartElements ==
    {StartElement("variable", a) : a \in AttrLists}
      \cup {StartElement("header", <<Attr("name", "x"), Attr("value", v)>>) :
               v \in {"1", "abc"}}

OtherEvents == {OtherEvent("EndElement"), OtherEvent("Characters")}

ErrorEvents == {XmlError("1:1 Unexpected token")}

Hints == {None} \cup {Some(n) : n \in 0..(MaxEvents + 1)}

\* problem.map(|p| p.variables().size_hint().0).unwrap_or(0)
HintLen(problem) == IF problem.some THEN problem.val ELSE 0

EmptyMap == [k \in {} |-> 0]

\* HashMap::with_capacity
HashMapWithCapacity(len) == [entries |-> EmptyMap, capacity |-> len]

HashMapInsert_fixed_capacity(map, k, v) ==
    IF k \notin DOMAIN map.entries /\ Cardinality(DOMAIN map.entries) >= map.capacity
    THEN map
    ELSE [entries  |-> [n \in DOMAIN map.entries \cup {k} |->
                           IF n = k THEN v ELSE map.entries[n]],
          capacity |-> map.capacity]

\* HashMap::insert: the entry is added or overwritten; the table grows when full
HashMapInsert(map, k, v) ==
    LET entries == [n \in DOMAIN map.entries \cup {k} |->
                       IF n = k THEN v ELSE map.entries[n]]
    IN  [entries  |-> entries,
         capacity |-> IF Cardinality(DOMAIN entries) > map.capacity
                      THEN Cardinality(DOMAIN entries) ELSE map.capacity]

\* format!("{:?}", name) for name: Option<String>
DebugOptString(name) ==
    IF name.some THEN "Some(\"" \o name.val \o "\")" ELSE "None"

InvalidValueMsg(name, e) ==
    "invalid variable value for " \o DebugOptString(name) \o ": " \o e

\* The attribute loop of one `variable` element (lines 116-129): Ok with the two
\* locals, or the Err that `?` returns.
RECURSIVE ScanAttrs(_, _, _)
ScanAttrs(attributes, name, value) ==
    IF attributes = <<>> THEN Ok([name |-> name, value |-> value])
    ELSE LET attr == Head(attributes)
         IN  CASE attr.name = "name" ->
                    ScanAttrs(Tail(attributes), Some(attr.value), value)
               [] attr.name = "value" ->
                    LET parsed == ParseF32(attr.value)
                    IN  IF parsed.ok
                        THEN ScanAttrs(Tail(attributes), name, Some(parsed.val))
                        ELSE Err(InvalidValueMsg(name, parsed.err))
               [] OTHER -> ScanAttrs(Tail(attributes), name, value)

\* The locals of one call: the solution under construction, what the call has
\* returned (None while the loop runs) and how many errors it has raised.
NewRun(len) ==
    [solution |-> [status |-> "Optimal", results |-> HashMapWithCapacity(len)],
     ret      |-> None,
     errs     |-> 0]

ReturnErr(run, msg) == [run EXCEPT !.ret = Some(Err(msg)), !.errs = @ + 1]

OnStartElement_defaults_missing_value(run, e) ==
    IF e.name = "variable"
    THEN LET scanned == ScanAttrs(e.attributes, None, None)
         IN  IF ~scanned.ok THEN ReturnErr(run, scanned.err)
             ELSE IF scanned.val.name.some
             THEN [run EXCEPT !.solution.results =
                      HashMapInsert(@, scanned.val.name.val,
                                    IF scanned.val.value.some
                                    THEN scanned.val.value.val ELSE Finite(0, 0))]
             ELSE run
    ELSE run

\* Ok(XmlEvent::StartElement { name, attributes, .. }) => ...   (lines 112-134)
OnStartElement(run, e) ==
    IF e.name = "variable"
    THEN LET scanned == ScanAttrs(e.attributes, None, None)
         IN  IF ~scanned.ok THEN ReturnErr(run, scanned.err)
             ELSE IF scanned.val.name.some /\ scanned.val.value.some
             THEN [run EXCEPT !.solution.results =
                      HashMapInsert(@, scanned.val.name.val, scanned.val.value.val)]
             ELSE run
    ELSE run

OnError_ends_document(run, e) == [run EXCEPT !.ret = Some(Ok(run.solution))]

\* Err(e) => return Err(format!("xml error: {}", e))   (line 135)
OnError(run, e) == ReturnErr(run, "xml error: " \o e.msg)

\* _ => {}   (line 136)
OnOtherEvent(run, e) == run

\* Ok(solution)   (line 139)
OnEndOfStream(run) == [run EXCEPT !.ret = Some(Ok(run.solution))]

XmlPcAfter(run) == IF run.ret.some THEN "returned" ELSE "scanning"

ReadSpecificSolution ==
    /\ xpc = "idle"
    /\ \E problem \in Hints :
          /\ xhint' = problem
          /\ xrun' = Some(NewRun(HintLen(problem)))
          /\ xref' = Some(NewRun(HintLen(None)))
    /\ xpc' = "scanning"
    /\ UNCHANGED xdoc
    /\ UNCHANGED <<cplexVars, exprVars, lineVars>>

XmlStartElement ==
    /\ xpc = "scanning"
    /\ Len(xdoc) < MaxEvents
    /\ \E e \in StartElements :
          /\ xdoc' = Append(xdoc, e)
          /\ xrun' = Some(OnStartElement(xrun.val, e))
          /\ xref' = Some(OnStartElement(xref.val, e))
    /\ xpc' = XmlPcAfter(xrun'.val)
    /\ UNCHANGED xhint
    /\ UNCHANGED <<cplexVars, exprVars, lineVars>>

XmlOtherEvent ==
    /\ xpc = "scanning"
    /\ Len(xdoc) < MaxEvents
    /\ \E e \in OtherEvents :
          /\ xdoc' = Append(xdoc, e)
          /\ xrun' = Some(OnOtherEvent(xrun.val, e))
          /\ xref' = Some(OnOtherEvent(xref.val, e))
    /\ xpc' = XmlPcAfter(xrun'.val)
    /\ UNCHANGED xhint
    /\ UNCHANGED <<cplexVars, exprVars, lineVars>>

XmlErrorEvent ==
    /\ xpc = "scanning"
    /\ Len(xdoc) < MaxEvents
    /\ \E e \in ErrorEvents :
          /\ xdoc' = Append(xdoc, e)
          /\ xrun' = Some(OnError(xrun.val, e))
          /\ xref' = Some(OnError(xref.val, e))
    /\ xpc' = XmlPcAfter(xrun'.val)
    /\ UNCHANGED xhint
    /\ UNCHANGED <<cplexVars, exprVars, lineVars>>

XmlEndOfStream ==
    /\ xpc = "scanning"
    /\ xrun' = Some(OnEndOfStream(xrun.val))
    /\ xref' = Some(OnEndOfStream(xref.val))
    /\ xpc' = "returned"
    /\ UNCHANGED <<xhint, xdoc>>
    /\ UNCHANGED <<cplexVars, exprVars, lineVars>>

XmlInit == CplexIdle /\ XmlIdle /\ ExprIdle /\ LineIdle

XmlNext ==
    \/ ReadSpecificSolution
    \/ XmlStartElement
    \/ XmlOtherEvent
    \/ XmlErrorEvent
    \/ XmlEndOfStream

SpecXml == XmlInit /\ [][XmlNext]_vars

(***************************************************************************)
(* Claims about read_specific_solution                                     *)
(***************************************************************************)
HasAttr(e, a) == \E i \in 1..Len(e.attributes) : e.attributes[i].name = a

AttrOf(e, a) ==
    e.attributes[CHOOSE i \in 1..Len(e.attributes) : e.attributes[i].name = a].value

IsVariable(e) == e.type = "StartElement" /\ e.name = "variable"

\* a `variable` element whose value attribute is not a number
BadValue(e) == IsVariable(e) /\ HasAttr(e, "value") /\ ~ParseF32(AttrOf(e, "value")).ok

\* a `variable` element carrying both attributes, the value a number
Complete(e) ==
    /\ IsVariable(e)
    /\ HasAttr(e, "name")
    /\ HasAttr(e, "value")
    /\ ParseF32(AttrOf(e, "value")).ok

Fails(e) == e.type = "Error" \/ BadValue(e)

XmlFailed == xrun.some /\ xrun.val.ret.some /\ ~xrun.val.ret.val.ok

XmlSucceeded == xrun.some /\ xrun.val.ret.some /\ xrun.val.ret.val.ok

\* the event the call failed on: an error ends the scan, so it is the last one taken
FailedOn(i) == XmlFailed /\ i = Len(xdoc)

\* C2: when a `variable` element has an unparsable value, the error message names the
\* element's variable, whenever the element has a name attribute and whatever the
\* order of its name and value attributes.
C2_ErrorNamesVariable ==
    \A i \in 1..Len(xdoc) :
        (BadValue(xdoc[i]) /\ HasAttr(xdoc[i], "name")) =>
            /\ FailedOn(i)
            /\ xrun.val.ret.val.err =
                  InvalidValueMsg(Some(AttrOf(xdoc[i], "name")),
                                  ParseF32(AttrOf(xdoc[i], "value")).err)

\* C3 as claimed: a `variable` element lacking name or lacking value never fails the
\* parse, and after a successful parse the mapping has one entry per `variable`
\* element that carried both attributes (N such elements, N entries).
C3_SkippedNeverFailsAndCount ==
    /\ \A i \in 1..Len(xdoc) :
          (IsVariable(xdoc[i])
             /\ (~HasAttr(xdoc[i], "name") \/ ~HasAttr(xdoc[i], "value")))
          => ~FailedOn(i)
    /\ XmlSucceeded =>
          LET entries == xrun.val.ret.val.val.results.entries
              both == {i \in 1..Len(xdoc) : Complete(xdoc[i])}
          IN  /\ Cardinality(DOMAIN entries) = Cardinality(both)
              /\ \A i \in both :
                    /\ AttrOf(xdoc[i], "name") \in DOMAIN entries
                    /\ entries[AttrOf(xdoc[i], "name")] =
                          ParseF32(AttrOf(xdoc[i], "value")).val

\* What the events taken so far should have recorded: every name carried by an
\* element with both attributes, mapped to the value of the last such element.
LastWins(doc) ==
    LET both  == {i \in 1..Len(doc) : Complete(doc[i])}
        names == {AttrOf(doc[i], "name") : i \in both}
        last(n) == CHOOSE i \in both :
                      /\ AttrOf(doc[i], "name") = n
                      /\ \A j \in both : AttrOf(doc[j], "name") = n => j <= i
    IN  [n \in names |-> ParseF32(AttrOf(doc[last(n)], "value")).val]

\* C3 (amended): a `variable` element that lacks a value attribute, or lacks a name
\* attribute and has a parsable value, never fails the parse and adds no entry; the
\* mapping holds exactly the names of the `variable` elements that carried both
\* attributes, each mapped to the parsed value of the last element carrying that
\* name (so N such elements with pairwise distinct names yield N entries), and
\* other elements contribute nothing.
C3_SkippedAndLastWins ==
    /\ \A i \in 1..Len(xdoc) :
          (IsVariable(xdoc[i])
             /\ (~HasAttr(xdoc[i], "value")
                   \/ (~HasAttr(xdoc[i], "name") /\ ~BadValue(xdoc[i]))))
          => ~FailedOn(i)
    /\ xrun.some =>
          xrun.val.solution.results.entries =
              LastWins(IF XmlFailed THEN SubSeq(xdoc, 1, Len(xdoc) - 1) ELSE xdoc)
    /\ XmlSucceeded =>
          xrun.val.ret.val.val.results.entries = LastWins(xdoc)

C3_Witness ==
    /\ XmlSucceeded
    /\ Len(xdoc) = 2
    /\ Complete(xdoc[1])
    /\ IsVariable(xdoc[2]) /\ HasAttr(xdoc[2], "name") /\ ~HasAttr(xdoc[2], "value")
    /\ DOMAIN xrun.val.ret.val.val.results.entries = {AttrOf(xdoc[1], "name")}

\* C5: an XML error or an unparsable value, wherever it occurs, makes the call
\* return an error and nothing else, whatever was recorded before; the error is
\* raised once and no event is taken after it.
C5_FailureIsTotal ==
    /\ xrun.some => xrun.val.errs <= 1
    /\ \A i \in 1..Len(xdoc) :
          Fails(xdoc[i]) =>
              /\ i = Len(xdoc)
              /\ xpc = "returned"
              /\ xrun.val.errs = 1
              /\ xrun.val.ret.some
              /\ ~xrun.val.ret.val.ok
              /\ DOMAIN xrun.val.ret.val = {"ok", "err"}

\* an entry was recorded, then the next element's value did not parse
C5_Witness ==
    /\ XmlFailed
    /\ Len(xdoc) = 2
    /\ Complete(xdoc[1])
    /\ BadValue(xdoc[2])
    /\ DOMAIN xrun.val.solution.results.entries /= {}

SameResult(r1, r2) ==
    /\ r1.some = r2.some
    /\ r1.some =>
          /\ r1.val.ok = r2.val.ok
          /\ r1.val.ok =>
                /\ r1.val.val.status = r2.val.val.status
                /\ r1.val.val.results.entries = r2.val.val.results.entries
          /\ ~r1.val.ok => r1.val.err = r2.val.err

\* C6: the call's result is the same whatever the problem hint: absent, the exact
\* variable count, or a count smaller or larger than the artifact's.
C6_HintIndependent ==
    xrun.some =>
        /\ SameResult(xrun.val.ret, xref.val.ret)
        /\ xrun.val.solution.results.entries = xref.val.solution.results.entries

\* two entries read under a hint of one variable
C6_Witness ==
    /\ XmlSucceeded
    /\ xhint = Some(1)
    /\ Cardinality(DOMAIN xrun.val.ret.val.val.results.entries) = 2

(***************************************************************************)
(* Expressions (operations.rs).  An LpExpression is a tree; the operators  *)
(* are the trait impls of the file, selected by the types of the operands. *)
(* An operand pair with no impl does not compile: the expression is never  *)
(* constructed.                                                            *)
(***************************************************************************)
MaxNodes == 5

Variables == {"a", "b"}
Literals  == {2, 300}

LitVal(v)     == [tag |-> "LitVal", v |-> v]
ConsInt(name) == [tag |-> "ConsInt", name |-> name]
AddExpr(l, r) == [tag |-> "AddExpr", l |-> l, r |-> r]
SubExpr(l, r) == [tag |-> "SubExpr", l |-> l, r |-> r]
MulExpr(l, r) == [tag |-> "MulExpr", l |-> l, r |-> r]

IsLeaf(e) == e.tag \in {"LitVal", "ConsInt"}

RECURSIVE Nodes(_)
Nodes(e) == IF IsLeaf(e) THEN 1 ELSE 1 + Nodes(e.l) + Nodes(e.r)

\* operands as the caller writes them: an i32, an owned expression, a reference
I32(v)   == [ty |-> "i32", v |-> v, e |-> LitVal(v)]
Owned(e) == [ty |-> "LpExpression", v |-> 0, e |-> e]
Ref(e)   == [ty |-> "&LpExpression", v |-> 0, e |-> e]

IsExprTy(x) == x.ty \in {"LpExpression", "&LpExpression"}

\* impl Into<LpExpression> for i32 / for &LpExpression, and the identity for LpExpression
Into(x) == IF x.ty = "i32" THEN LitVal(x.v) ELSE x.e

NoImpl == Err("E0277: no implementation for these operand types")

Add(lhs, rhs) ==
    CASE IsExprTy(lhs) -> Ok(AddExpr(lhs.e, Into(rhs)))
      [] lhs.ty = "i32" /\ rhs.ty = "&LpExpression" -> Ok(AddExpr(LitVal(lhs.v), rhs.e))
      [] OTHER -> NoImpl

Sub(lhs, rhs) ==
    CASE IsExprTy(lhs) -> Ok(SubExpr(lhs.e, Into(rhs)))
      [] lhs.ty = "i32" /\ rhs.ty = "&LpExpression" -> Ok(SubExpr(LitVal(lhs.v), rhs.e))
      [] OTHER -> NoImpl

Neg(x) ==
    IF x.ty = "&LpExpression" THEN Ok(MulExpr(LitVal(-1), x.e)) ELSE NoImpl

Mul_for_expressions_too(lhs, rhs) ==
    IF lhs.ty = "i32" /\ IsExprTy(rhs)
    THEN Ok(MulExpr(LitVal(lhs.v), rhs.e))
    ELSE Ok(MulExpr(Into(lhs), Into(rhs)))

Mul(lhs, rhs) ==
    IF lhs.ty = "i32" /\ IsExprTy(rhs)
    THEN Ok(MulExpr(LitVal(lhs.v), rhs.e))
    ELSE NoImpl

(***************************************************************************)
(* Constraints.  LpConstraint and generalize() live in variables.rs; they  *)
(* are modelled from the specification: canonicalise lhs - rhs, keep the   *)
(* variable terms on the left and put the negated constant on the right.   *)
(***************************************************************************)
LpConstraint(lhs, op, rhs) == [lhs |-> lhs, op |-> op, rhs |-> rhs]

ZeroCoef == [v \in Variables |-> 0]

\* constant + sum of coefficient * variable.  A product whose first operand is not
\* constant has no such form; no operator of operations.rs builds one.
RECURSIVE Canon(_)
Canon(e) ==
    CASE e.tag = "LitVal"  -> [const |-> e.v, coef |-> ZeroCoef]
      [] e.tag = "ConsInt" ->
           [const |-> 0, coef |-> [v \in Variables |-> IF v = e.name THEN 1 ELSE 0]]
      [] e.tag = "AddExpr" ->
           LET a == Canon(e.l)
               b == Canon(e.r)
           IN  [const |-> a.const + b.const,
                coef  |-> [v \in Variables |-> a.coef[v] + b.coef[v]]]
      [] e.tag = "SubExpr" ->
           LET a == Canon(e.l)
               b == Canon(e.r)
           IN  [const |-> a.const - b.const,
                coef  |-> [v \in Variables |-> a.coef[v] - b.coef[v]]]
      [] e.tag = "MulExpr" ->
           LET a == Canon(e.l)
               b == Canon(e.r)
           IN  [const |-> a.const * b.const,
                coef  |-> [v \in Variables |-> a.const * b.coef[v]]]

\* the variable part of a canonical form as an expression: a, then b
Terms(coef) ==
    LET term(v) == MulExpr(LitVal(coef[v]), ConsInt(v))
        used    == {v \in Variables : coef[v] /= 0}
    IN  CASE used = {}          -> LitVal(0)
          [] used = {"a"}       -> term("a")
          [] used = {"b"}       -> term("b")
          [] OTHER              -> AddExpr(term("a"), term("b"))

generalize(c) ==
    LET k == Canon(SubExpr(c.lhs, c.rhs))
    IN  LpConstraint(Terms(k.coef), c.op, LitVal(0 - k.const))

le_without_generalize(self, lhs_expr) ==
    LpConstraint(Into(self), "LessOrEqual", Into(lhs_expr))

le(self, lhs_expr) ==
    generalize(LpConstraint(Into(self), "LessOrEqual", Into(lhs_expr)))

ge(self, lhs_expr) ==
    generalize(LpConstraint(Into(self), "GreaterOrEqual", Into(lhs_expr)))

equal(self, lhs_expr) ==
    generalize(LpConstraint(Into(self), "Equal", Into(lhs_expr)))

(***************************************************************************)
(* SpecExpr: a caller builds one expression step by step from variables,   *)
(* literals and what it has built, and states constraints over it.         *)
(***************************************************************************)
\* what the caller can write as an operand
Operands ==
    {I32(v) : v \in Literals}
      \cup {Ref(ConsInt(v)) : v \in Variables}
      \cup (IF expr.some THEN {Owned(expr.val), Ref(expr.val)} ELSE {})

Built(r) == r.ok /\ Nodes(r.val) <= MaxNodes

\* the caller is between statements: the last call's outcome has been consumed
AtStatement == ~mulCall.some /\ ~conCall.some

\* let ref a = LpInteger::new("a")
NewVariable ==
    /\ AtStatement
    /\ \E v \in Variables : expr' = Some(ConsInt(v))
    /\ UNCHANGED <<mulCall, conCall>>
    /\ UNCHANGED <<cplexVars, xmlVars, lineVars>>

AddOp ==
    /\ AtStatement
    /\ \E lhs \in Operands, rhs \in Operands :
          /\ IsExprTy(lhs) \/ IsExprTy(rhs)
          /\ Built(Add(lhs, rhs))
          /\ expr' = Some(Add(lhs, rhs).val)
    /\ UNCHANGED <<mulCall, conCall>>
    /\ UNCHANGED <<cplexVars, xmlVars, lineVars>>

SubOp ==
    /\ AtStatement
    /\ \E lhs \in Operands, rhs \in Operands :
          /\ IsExprTy(lhs) \/ IsExprTy(rhs)
          /\ Built(Sub(lhs, rhs))
          /\ expr' = Some(Sub(lhs, rhs).val)
    /\ UNCHANGED <<mulCall, conCall>>
    /\ UNCHANGED <<cplexVars, xmlVars, lineVars>>

NegOp ==
    /\ AtStatement
    /\ \E x \in Operands :
          /\ IsExprTy(x)
          /\ Built(Neg(x))
          /\ expr' = Some(Neg(x).val)
    /\ UNCHANGED <<mulCall, conCall>>
    /\ UNCHANGED <<cplexVars, xmlVars, lineVars>>

\* lhs * rhs with an expression on at least one side; without an impl nothing is built
MulOp ==
    /\ AtStatement
    /\ \E lhs \in Operands, rhs \in Operands :
          LET r == Mul(lhs, rhs)
          IN  /\ IsExprTy(lhs) \/ IsExprTy(rhs)
              /\ r.ok => Nodes(r.val) <= MaxNodes
              /\ mulCall' = Some([lhs |-> lhs, rhs |-> rhs, res |-> r])
              /\ expr' = IF r.ok THEN Some(r.val) ELSE expr
    /\ UNCHANGED conCall
    /\ UNCHANGED <<cplexVars, xmlVars, lineVars>>

Relate(method, self, arg) ==
    /\ conCall' = Some([method |-> method, self |-> self, arg |-> arg,
                        result |-> CASE method = "le" -> le(self, arg)
                                     [] method = "ge" -> ge(self, arg)
                                     [] OTHER -> equal(self, arg)])
    /\ UNCHANGED <<expr, mulCall>>
    /\ UNCHANGED <<cplexVars, xmlVars, lineVars>>

LeOp ==
    /\ AtStatement
    /\ \E self \in Operands, arg \in Operands : Relate("le", self, arg)

GeOp ==
    /\ AtStatement
    /\ \E self \in Operands, arg \in Operands : Relate("ge", self, arg)

EqualOp ==
    /\ AtStatement
    /\ \E self \in Operands, arg \in Operands : Relate("equal", self, arg)

\* the caller goes on to its next statement (problem += constraint; ...)
NextStatement ==
    /\ ~AtStatement
    /\ mulCall' = None
    /\ conCall' = None
    /\ UNCHANGED expr
    /\ UNCHANGED <<cplexVars, xmlVars, lineVars>>

ExprInit == CplexIdle /\ XmlIdle /\ ExprIdle /\ LineIdle

ExprNext ==
    \/ NewVariable \/ AddOp \/ SubOp \/ NegOp \/ MulOp
    \/ LeOp \/ GeOp \/ EqualOp
    \/ NextStatement

SpecExpr == ExprInit /\ [][ExprNext]_vars

(***************************************************************************)
(* Claims about expressions and constraints                                *)
(***************************************************************************)
RECURSIVE ProductsLiteralFirst(_)
ProductsLiteralFirst(e) ==
    \/ IsLeaf(e)
    \/ /\ e.tag = "MulExpr" => e.l.tag = "LitVal"
       /\ ProductsLiteralFirst(e.l)
       /\ ProductsLiteralFirst(e.r)

RECURSIVE HasProduct(_)
HasProduct(e) ==
    /\ ~IsLeaf(e)
    /\ (e.tag = "MulExpr" \/ HasProduct(e.l) \/ HasProduct(e.r))

OpOf(method) ==
    CASE method = "le" -> "LessOrEqual"
      [] method = "ge" -> "GreaterOrEqual"
      [] method = "equal" -> "Equal"

HasVariables(e) == \E v \in Variables : Canon(e).coef[v] /= 0

\* C9: le, ge and equal return a constraint in generalized form: no variable on the
\* right-hand side, the relational operator of the method called, and the receiver
\* on the left of it and the argument on the right (receiver - argument OP 0).
C9_GeneralizedForm ==
    conCall.some =>
        LET c == conCall.val
        IN  /\ c.result.rhs.tag = "LitVal"
            /\ ~HasVariables(c.result.rhs)
            /\ c.result.op = OpOf(c.method)
            /\ Canon(SubExpr(c.result.lhs, c.result.rhs))
                  = Canon(SubExpr(Into(c.self), Into(c.arg)))

\* (300 * (a - b)).ge(&b): the variable of the argument moves to the left
C9_Witness ==
    /\ conCall.some
    /\ conCall.val.method = "ge"
    /\ conCall.val.self.e = MulExpr(LitVal(300), SubExpr(ConsInt("a"), ConsInt("b")))
    /\ conCall.val.arg = Ref(ConsInt("b"))
    /\ conCall.val.result =
          LpConstraint(AddExpr(MulExpr(LitVal(300), ConsInt("a")),
                               MulExpr(LitVal(-301), ConsInt("b"))),
                       "GreaterOrEqual", LitVal(0))

(***************************************************************************)
(* Line-dialect readers (CbcSolver, GlpkSolver).  Their code is outside    *)
(* src/; tests/solvers.rs calls them.  They are modelled from the          *)
(* specification: a status header under one of several phrasings, then     *)
(* value lines and blank or comment lines, read forward one line at a      *)
(* time.                                                                   *)
(***************************************************************************)
MaxLines == 3

StatusPhrases ==
    {"Optimal", "OPTIMAL", "Infeasible", "Integer infeasible", "INFEASIBLE (FINAL)",
     "Unbounded", "UNBOUNDED", "Stopped on time"}

InfeasiblePhrases == {"Infeasible", "Integer infeasible", "INFEASIBLE (FINAL)"}

StatusOfPhrase_first_phrasing_only(phrase) ==
    CASE phrase \in {"Optimal", "OPTIMAL"}     -> "Optimal"
      [] phrase = "Infeasible"                 -> "Infeasible"
      [] phrase \in {"Unbounded", "UNBOUNDED"} -> "Unbounded"
      [] OTHER                                 -> "Unknown"

StatusOfPhrase(phrase) ==
    CASE phrase \in {"Optimal", "OPTIMAL"}     -> "Optimal"
      [] phrase \in InfeasiblePhrases          -> "Infeasible"
      [] phrase \in {"Unbounded", "UNBOUNDED"} -> "Unbounded"
      [] OTHER                                 -> "Unknown"

StatusLine(phrase)     == [kind |-> "status", phrase |-> phrase, name |-> "", value |-> ""]
ValueLine(name, value) == [kind |-> "value", phrase |-> "", name |-> name, value |-> value]
BlankLine              == [kind |-> "blank", phrase |-> "", name |-> "", value |-> ""]

BodyLines ==
    {ValueLine(n, v) : n \in {"a", "b"}, v \in {"0", "1"}} \cup {BlankLine}

OnStatusLine(line) ==
    [status |-> StatusOfPhrase(line.phrase), results |-> EmptyMap, ret |-> None]

OnBodyLine(run, line) ==
    IF line.kind = "value"
    THEN [run EXCEPT !.results =
             [n \in DOMAIN run.results \cup {line.name} |->
                 IF n = line.name THEN ParseF32(line.value).val ELSE run.results[n]]]
    ELSE run

OnEndOfFile(run) ==
    [run EXCEPT !.ret = Some(Ok([status |-> run.status, results |-> run.results]))]

ReadStatusLine ==
    /\ lpc = "idle"
    /\ \E phrase \in StatusPhrases :
          /\ ldoc' = <<StatusLine(phrase)>>
          /\ lrun' = Some(OnStatusLine(StatusLine(phrase)))
    /\ lpc' = "reading"
    /\ UNCHANGED <<cplexVars, xmlVars, exprVars>>

ReadBodyLine ==
    /\ lpc = "reading"
    /\ Len(ldoc) <= MaxLines
    /\ \E line \in BodyLines :
          /\ ldoc' = Append(ldoc, line)
          /\ lrun' = Some(OnBodyLine(lrun.val, line))
    /\ UNCHANGED lpc
    /\ UNCHANGED <<cplexVars, xmlVars, exprVars>>

ReadEndOfFile ==
    /\ lpc = "reading"
    /\ lrun' = Some(OnEndOfFile(lrun.val))
    /\ lpc' = "returned"
    /\ UNCHANGED ldoc
    /\ UNCHANGED <<cplexVars, xmlVars, exprVars>>

LineInit == CplexIdle /\ XmlIdle /\ ExprIdle /\ LineIdle

LineNext == ReadStatusLine \/ ReadBodyLine \/ ReadEndOfFile

SpecLine == LineInit /\ [][LineNext]_vars

\* C10: a line-dialect artifact whose status phrase says infeasible, under any of its
\* phrasings, is read without error and yields Status::Infeasible, whatever value
\* lines follow the status.
C10_InfeasibleIsAStatus ==
    (lpc = "returned" /\ ldoc[1].phrase \in InfeasiblePhrases) =>
        /\ lrun.val.ret.some
        /\ lrun.val.ret.val.ok
        /\ lrun.val.ret.val.val.status = "Infeasible"

\* the alternative phrasing followed by the values of a and b
C10_Witness ==
    /\ lpc = "returned"
    /\ ldoc[1].phrase = "Integer infeasible"
    /\ lrun.val.ret.val.val.status = "Infeasible"
    /\ DOMAIN lrun.val.ret.val.val.results = {"a", "b"}

=============================================================================
